---- MODULE Spec2Model ----
(***************************************************************************)
(* Smart Waste Management API (src/main.cpp): the in-memory store g_bins,  *)
(* the id counter g_next_bin_id, the backing file bin_data.json and the    *)
(* HTTP handlers that read and change them.  Requests are handled one at a *)
(* time in specification Spec; every handler is one action.                *)
(***************************************************************************)
EXTENDS Integers, Sequences, FiniteSets, TLC

\* ---------------------------------------------------------------- bounds
MaxBins == 2          \* records in the store
MaxClock == 1         \* milliseconds the wall clock may advance

MaxId == MaxBins + 1  \* ids the counter may hand out
MaxBatch == MaxBins   \* elements of one POST /bins array

\* ------------------------------------------------------- program constants
FillMin == 0          \* lower clamp of fillLevel
FillMax == 100        \* upper clamp of fillLevel, upper end of the sensor range
CollectThreshold == 75

\* ------------------------------------------------------------ input samples
Locations == {"", "A"}
SensorSamples == {74, 75}       \* draws of uniform_int_distribution(0, 100)
SensorSamplesH == {75}
OutOfRangeId == -1              \* a \d+ path segment beyond INT_MAX
ReqIds == (1..MaxId) \cup {OutOfRangeId}

\* The worker threads of the server's pool that are looked at, a thread that
\* is handling no request, and the mutex when no thread holds it.
Workers == {"w1", "w2"}
NoOwner == "none"
IdleThread == [pc |-> "idle", op |-> "", id |-> 0, n |-> 0]

\* g_bins, g_next_bin_id: the globals of lines 82-83.  file: bin_data.json.
\* clock: the system clock in milliseconds.  res: the response to the last
\* request.  disk: whether the backing file can be opened and written.
\* deletedEver, deletedSinceLoad: history of the ids deleted so far, and of
\* those deleted since the store was last loaded (kept in SpecHistory only).
\* threads: where each worker thread of the server is in its handler, and
\* the handler's locals.  g_file_mutex: the owner of the mutex of line 18.
VARIABLES g_bins, g_next_bin_id, file, clock, res, disk,
          deletedEver, deletedSinceLoad, threads, g_file_mutex

vars == <<g_bins, g_next_bin_id, file, clock, res, disk,
          deletedEver, deletedSinceLoad, threads, g_file_mutex>>

history == <<deletedEver, deletedSinceLoad>>

workers == <<threads, g_file_mutex>>

\* ------------------------------------------------------------------ JSON
\* A JSON value: its type tag and one slot per type.  A number n is held as
\* hi * 2^32 + lo with lo in the range of int, so that get<int>() (a
\* static_cast of the 64-bit value) is the projection on lo.  A timestamp
\* string is held by the millisecond count it prints.
JMissing == [t |-> "missing", hi |-> 0, lo |-> 0, s |-> "", b |-> FALSE]
JNum(hi, lo) == [t |-> "number", hi |-> hi, lo |-> lo, s |-> "", b |-> FALSE]
JStr(s) == [t |-> "string", hi |-> 0, lo |-> 0, s |-> s, b |-> FALSE]
JTime(ms) == [t |-> "string", hi |-> 0, lo |-> ms, s |-> "time", b |-> FALSE]
JBool(b) == [t |-> "boolean", hi |-> 0, lo |-> 0, s |-> "", b |-> b]

contains(j) == j.t # "missing"
is_string(j) == j.t = "string"
is_number(j) == j.t = "number"
is_boolean(j) == j.t = "boolean"

\* get<int>(): numbers are cast to int (the low 32 bits), booleans convert
\* to 0 or 1, anything else throws type_error.
GetIntThrows(j) == j.t \notin {"number", "boolean"}
GetInt(j) == IF j.t = "boolean" THEN (IF j.b THEN 1 ELSE 0) ELSE j.lo
GetStringThrows(j) == j.t # "string"
GetBoolThrows(j) == j.t # "boolean"

\* --------------------------------------------------------------- WasteBin
WasteBin_shiftId(id, location, now) ==
    [id |-> id + 1, location |-> location, fillLevel |-> 0,
     needsCollection |-> FALSE, lastUpdated |-> now]

\* Lines 37-41: the constructor with fields.
WasteBin(id, location, now) ==
    [id |-> id, location |-> location, fillLevel |-> 0,
     needsCollection |-> FALSE, lastUpdated |-> now]

DefaultWasteBin(now) == WasteBin(0, "", now)

ToJson_dropLocation(bin) ==
    [id |-> JNum(0, bin.id), location |-> JMissing,
     fillLevel |-> JNum(0, bin.fillLevel),
     needsCollection |-> JBool(bin.needsCollection),
     lastUpdated |-> JTime(bin.lastUpdated)]

ToJson(bin) ==
    [id |-> JNum(0, bin.id), location |-> JStr(bin.location),
     fillLevel |-> JNum(0, bin.fillLevel),
     needsCollection |-> JBool(bin.needsCollection),
     lastUpdated |-> JTime(bin.lastUpdated)]

FromJsonThrows(j) ==
    \/ GetIntThrows(j.id)
    \/ GetStringThrows(j.location)
    \/ GetIntThrows(j.fillLevel)
    \/ GetBoolThrows(j.needsCollection)
    \/ GetStringThrows(j.lastUpdated)

FromJson(j, now) ==
    [DefaultWasteBin(now) EXCEPT
        !.id = GetInt(j.id),
        !.location = j.location.s,
        !.fillLevel = GetInt(j.fillLevel),
        !.needsCollection = j.needsCollection.b,
        !.lastUpdated = j.lastUpdated.lo]

\* ------------------------------------------------------------ sequences
Ids(bins) == {bins[i].id : i \in 1..Len(bins)}
MaxOf(S) == CHOOSE m \in S : \A x \in S : x <= m
SeqsUpTo(S, n) == UNION {[1..k -> S] : k \in 0..n}

FindBin_orFirst(bins, binId) ==
    IF \E i \in 1..Len(bins) : bins[i].id = binId
    THEN CHOOSE i \in 1..Len(bins) :
            /\ bins[i].id = binId
            /\ \A k \in 1..(i - 1) : bins[k].id # binId
    ELSE IF bins # <<>> THEN 1 ELSE 0

\* std::find_if by id: the index of the first match, 0 for end().
FindBin(bins, binId) ==
    IF \E i \in 1..Len(bins) : bins[i].id = binId
    THEN CHOOSE i \in 1..Len(bins) :
            /\ bins[i].id = binId
            /\ \A k \in 1..(i - 1) : bins[k].id # binId
    ELSE 0

Erase(bins, i) == SubSeq(bins, 1, i - 1) \o SubSeq(bins, i + 1, Len(bins))

\* ------------------------------------------------------------ persistence
NoFile == [exists |-> FALSE, data |-> <<>>]

Dump(bins) == [exists |-> TRUE, data |-> [i \in 1..Len(bins) |-> ToJson(bins[i])]]

SaveBinsToFile_always(bins) == file' = Dump(bins)

\* A file cut short: opening the stream has emptied it and nothing valid
\* was written.  It is not JSON; a load throws on it as on an element
\* without fields.
Truncated ==
    [exists |-> TRUE,
     data |-> <<[id |-> JMissing, location |-> JMissing, fillLevel |-> JMissing,
                 needsCollection |-> JMissing, lastUpdated |-> JMissing]>>]

\* saveBinsToFile: the file is overwritten with the whole store.  When the
\* stream cannot be opened nothing is written; when it opens (which empties
\* the file) and the write fails the file is left cut short.  Neither
\* throws, so neither is reported.
SaveBinsToFile(bins) ==
    file' = CASE disk = "ok" -> Dump(bins)
              [] disk = "unopenable" -> file
              [] disk = "full" -> Truncated

LoadThrows(f) == \E i \in 1..Len(f.data) : FromJsonThrows(f.data[i])

\* Keeps the elements that precede the first bad one.
LoadedBins_partial(f, now) ==
    IF ~f.exists THEN <<>>
    ELSE LET ok == {n \in 0..Len(f.data) :
                       \A i \in 1..n : ~FromJsonThrows(f.data[i])}
             n == CHOOSE k \in ok : \A l \in ok : l <= k
         IN [i \in 1..n |-> FromJson(f.data[i], now)]

LoadedBins(f, now) ==
    IF ~f.exists \/ LoadThrows(f) THEN <<>>
    ELSE [i \in 1..Len(f.data) |-> FromJson(f.data[i], now)]

NextIdAfterLoad(bins) == IF bins # <<>> THEN MaxOf(Ids(bins)) + 1 ELSE 1

\* loadBinsFromFile
LoadBinsFromFile ==
    /\ g_bins' = LoadedBins(file, clock)
    /\ g_next_bin_id' = NextIdAfterLoad(LoadedBins(file, clock))

\* ------------------------------------------------------------- responses
Response(op, status, message, data) ==
    [op |-> op, status |-> status, message |-> message, data |-> data]

Init ==
    /\ file = NoFile
    /\ g_bins = LoadedBins(NoFile, 0)
    /\ g_next_bin_id = NextIdAfterLoad(LoadedBins(NoFile, 0))
    /\ clock = 0
    /\ res = Response("start", 0, "", <<>>)
    /\ disk = "ok"
    /\ deletedEver = {}
    /\ deletedSinceLoad = {}
    /\ threads = [w \in Workers |-> IdleThread]
    /\ g_file_mutex = NoOwner

\* The wall clock advances between requests.
Tick ==
    /\ clock < MaxClock
    /\ clock' = clock + 1
    /\ UNCHANGED <<g_bins, g_next_bin_id, file, res, disk>>

\* ------------------------------------------------------------ POST /bins
\* What binData["location"] is for one element of the request array: absent,
\* a number, or a string.
PostItems == {JMissing, JNum(0, 7), JStr(""), JStr("A")}
PostBodies ==
    {[wellFormed |-> FALSE, items |-> <<>>]} \cup
    {[wellFormed |-> TRUE, items |-> s] : s \in SeqsUpTo(PostItems, MaxBatch)}

NextBinId_stuck(next) == next

\* g_next_bin_id++
NextBinId(next) == next + 1

\* The loop over the request array, from element i on: it stops at the first
\* element without a string location and keeps what it has pushed so far.
RECURSIVE PostLoop(_, _, _, _, _)
PostLoop(items, i, bins, next, now) ==
    IF i > Len(items) THEN [bins |-> bins, next |-> next, bad |-> FALSE]
    ELSE IF ~contains(items[i]) \/ ~is_string(items[i])
    THEN [bins |-> bins, next |-> next, bad |-> TRUE]
    ELSE PostLoop(items, i + 1,
                  Append(bins, WasteBin(next, items[i].s, now)),
                  NextBinId(next), now)

PostBins(body) ==
    IF ~body.wellFormed
    THEN /\ res' = Response("POST /bins", 400, "Error: parse error", <<>>)
         /\ UNCHANGED <<g_bins, g_next_bin_id, file, clock, disk>>
    ELSE LET r == PostLoop(body.items, 1, g_bins, g_next_bin_id, clock)
             created == SubSeq(r.bins, Len(g_bins) + 1, Len(r.bins))
         IN /\ Len(r.bins) <= MaxBins
            /\ r.next <= MaxId + 1
            /\ g_bins' = r.bins
            /\ g_next_bin_id' = r.next
            /\ UNCHANGED <<clock, disk>>
            /\ IF r.bad
               THEN /\ res' = Response("POST /bins", 400,
                                       "Each bin must have a location string", <<>>)
                    /\ UNCHANGED file
               ELSE /\ SaveBinsToFile(r.bins)
                    /\ res' = Response("POST /bins", 201,
                                       "bins added successfully", created)

\* ------------------------------------------------------------- GET /bins
GetBins ==
    /\ res' = Response("GET /bins", 200,
                       IF g_bins = <<>> THEN "No bins available" ELSE "Retrieved bins",
                       g_bins)
    /\ UNCHANGED <<g_bins, g_next_bin_id, file, clock, disk>>

\* std::stoi on the path segment: out_of_range beyond INT_MAX.
StoiThrows(seg) == seg = OutOfRangeId

\* -------------------------------------------------------- GET /bins/{id}
\* The stoi exception leaves the handler; the server answers 500.
GetBin(binId) ==
    /\ res' = IF StoiThrows(binId)
              THEN Response("GET /bins/id", 500, "unhandled exception", <<>>)
              ELSE IF FindBin(g_bins, binId) # 0
              THEN Response("GET /bins/id", 200, "Retrieved bin",
                            <<g_bins[FindBin(g_bins, binId)]>>)
              ELSE Response("GET /bins/id", 404, "not found", <<>>)
    /\ UNCHANGED <<g_bins, g_next_bin_id, file, clock, disk>>

\* ----------------------------------------------------- DELETE /bins/{id}
DeleteBin_renumber(binId) ==
    IF StoiThrows(binId) \/ FindBin(g_bins, binId) = 0
    THEN /\ res' = Response("DELETE /bins/id",
                            IF StoiThrows(binId) THEN 500 ELSE 404, "not found", <<>>)
         /\ UNCHANGED <<g_bins, g_next_bin_id, file, clock, disk>>
    ELSE /\ g_bins' = Erase(g_bins, FindBin(g_bins, binId))
         /\ g_next_bin_id' = NextIdAfterLoad(Erase(g_bins, FindBin(g_bins, binId)))
         /\ SaveBinsToFile(Erase(g_bins, FindBin(g_bins, binId)))
         /\ res' = Response("DELETE /bins/id", 200, "deleted successfully", <<>>)
         /\ UNCHANGED <<clock, disk>>

DeleteBin(binId) ==
    IF StoiThrows(binId)
    THEN /\ res' = Response("DELETE /bins/id", 500, "unhandled exception", <<>>)
         /\ UNCHANGED <<g_bins, g_next_bin_id, file, clock, disk>>
    ELSE LET it == FindBin(g_bins, binId)
         IN IF it # 0
            THEN /\ g_bins' = Erase(g_bins, it)
                 /\ SaveBinsToFile(Erase(g_bins, it))
                 /\ res' = Response("DELETE /bins/id", 200, "deleted successfully", <<>>)
                 /\ UNCHANGED <<g_next_bin_id, clock, disk>>
            ELSE /\ res' = Response("DELETE /bins/id", 404, "not found", <<>>)
                 /\ UNCHANGED <<g_bins, g_next_bin_id, file, clock, disk>>

\* -------------------------------------------------------- PUT /bins/{id}
Min(a, b) == IF a < b THEN a ELSE b
Max(a, b) == IF a > b THEN a ELSE b

Clamp_none(v) == v

\* std::max(0, std::min(100, v))
Clamp(v) == Max(FillMin, Min(FillMax, v))

\* Request bodies: not JSON at all, or an object with each of the three
\* fields absent, mistyped or present.  2^32 + 74 and -2^32 + 75 are JSON
\* integers outside the range of int.
PutBody(location, fillLevel, needsCollection) ==
    [wellFormed |-> TRUE, location |-> location, fillLevel |-> fillLevel,
     needsCollection |-> needsCollection]
EmptyBody == PutBody(JMissing, JMissing, JMissing)
PutFill == {JStr("x"), JNum(0, -5), JNum(0, 75), JNum(0, 150),
            JNum(1, 74), JNum(-1, 75)}
PutBodies ==
    {[EmptyBody EXCEPT !.wellFormed = FALSE], EmptyBody,
     PutBody(JStr("A"), JNum(0, 150), JBool(TRUE))}
    \cup {PutBody(JStr(l), JMissing, JMissing) : l \in Locations}
    \cup {PutBody(JMissing, f, JMissing) : f \in PutFill}
    \cup {PutBody(JMissing, JMissing, JBool(b)) : b \in BOOLEAN}

ApplyUpdate_resetFill(bin, body, now) ==
    [bin EXCEPT
        !.location = IF contains(body.location) /\ is_string(body.location)
                     THEN body.location.s ELSE @,
        !.fillLevel = IF contains(body.fillLevel) /\ is_number(body.fillLevel)
                      THEN Clamp(GetInt(body.fillLevel)) ELSE 0,
        !.needsCollection = IF contains(body.needsCollection)
                               /\ is_boolean(body.needsCollection)
                            THEN body.needsCollection.b ELSE @,
        !.lastUpdated = DefaultWasteBin(now).lastUpdated]

\* Lines 326-339: only the provided, well-typed fields; always the timestamp.
ApplyUpdate(bin, body, now) ==
    [bin EXCEPT
        !.location = IF contains(body.location) /\ is_string(body.location)
                     THEN body.location.s ELSE @,
        !.fillLevel = IF contains(body.fillLevel) /\ is_number(body.fillLevel)
                      THEN Clamp(GetInt(body.fillLevel)) ELSE @,
        !.needsCollection = IF contains(body.needsCollection)
                               /\ is_boolean(body.needsCollection)
                            THEN body.needsCollection.b ELSE @,
        !.lastUpdated = DefaultWasteBin(now).lastUpdated]

UpdateBin(binId, body) ==
    IF StoiThrows(binId) \/ ~body.wellFormed
    THEN /\ res' = Response("PUT /bins/id", 400,
                            IF StoiThrows(binId) THEN "Error: stoi"
                            ELSE "Error: parse error", <<>>)
         /\ UNCHANGED <<g_bins, g_next_bin_id, file, clock, disk>>
    ELSE LET it == FindBin(g_bins, binId)
         IN IF it # 0
            THEN LET updated == ApplyUpdate(g_bins[it], body, clock)
                 IN /\ g_bins' = [g_bins EXCEPT ![it] = updated]
                    /\ SaveBinsToFile([g_bins EXCEPT ![it] = updated])
                    /\ res' = Response("PUT /bins/id", 200, "updated successfully",
                                       <<updated>>)
                    /\ UNCHANGED <<g_next_bin_id, clock, disk>>
            ELSE /\ res' = Response("PUT /bins/id", 404, "not found", <<>>)
                 /\ UNCHANGED <<g_bins, g_next_bin_id, file, clock, disk>>

\* --------------------------------------------- POST /bins/collect-sensor-data
SensorReading_keepFlag(bin, level, now) ==
    [bin EXCEPT !.fillLevel = level,
                !.lastUpdated = DefaultWasteBin(now).lastUpdated]

SensorReading(bin, level, now) ==
    [bin EXCEPT !.fillLevel = level,
                !.needsCollection = (level >= CollectThreshold),
                !.lastUpdated = DefaultWasteBin(now).lastUpdated]

CollectSensorData(draw) ==
    IF g_bins = <<>>
    THEN /\ res' = Response("POST /bins/collect-sensor-data", 404,
                            "No bins available", <<>>)
         /\ UNCHANGED <<g_bins, g_next_bin_id, file, clock, disk>>
    ELSE LET updatedBins == [i \in 1..Len(g_bins) |->
                                SensorReading(g_bins[i], draw[i], clock)]
         IN /\ g_bins' = updatedBins
            /\ SaveBinsToFile(updatedBins)
            /\ res' = Response("POST /bins/collect-sensor-data", 200,
                               "Sensor data collected and updated", updatedBins)
            /\ UNCHANGED <<g_next_bin_id, clock, disk>>

\* ------------------------------------------------------ GET /optimize-route
NeedsPickup_all(bin) == TRUE

\* Line 403: the filter.
NeedsPickup(bin) == bin.needsCollection

ToCollect(bins) == SelectSeq(bins, NeedsPickup)

\* Lines 417-419: the comparator, highest fill level first.
RouteComp(a, b) == a.fillLevel > b.fillLevel

IndexPermutations(n) == {p \in [1..n -> 1..n] : \A i, j \in 1..n : p[i] = p[j] => i = j}

\* std::sort: some permutation ordered by the comparator; the order of
\* elements the comparator does not separate is unspecified.
SortOutcomes(s) ==
    {[i \in 1..Len(s) |-> s[p[i]]] : p \in
        {q \in IndexPermutations(Len(s)) :
            \A i, j \in 1..Len(s) : i < j => ~RouteComp(s[q[j]], s[q[i]])}}

RouteItem(bin) ==
    [id |-> bin.id, location |-> bin.location, fillLevel |-> bin.fillLevel,
     lastUpdated |-> bin.lastUpdated]

GetRoute ==
    /\ IF ToCollect(g_bins) = <<>>
       THEN res' = Response("GET /optimize-route", 200,
                            "No bins need collection right now", <<>>)
       ELSE \E sorted \in SortOutcomes(ToCollect(g_bins)) :
               res' = Response("GET /optimize-route", 200, "Found bins needing collection",
                               [i \in 1..Len(sorted) |-> RouteItem(sorted[i])])
    /\ UNCHANGED <<g_bins, g_next_bin_id, file, clock, disk>>

\* ------------------------------------------------------ GET /dashboard/stats
Bucket_gap(fillLevel) ==
    IF fillLevel < 25 THEN "low"
    ELSE IF fillLevel < 50 THEN "medium"
    ELSE IF fillLevel < 75 THEN "high"
    ELSE IF fillLevel > 75 THEN "critical"
    ELSE "none"

\* Lines 476-479: the chain of comparisons that picks the counter to bump.
Bucket(fillLevel) ==
    IF fillLevel < 25 THEN "low"
    ELSE IF fillLevel < 50 THEN "medium"
    ELSE IF fillLevel < 75 THEN "high"
    ELSE "critical"

CountBucket(bins, name) ==
    Cardinality({i \in 1..Len(bins) : Bucket(bins[i].fillLevel) = name})

RECURSIVE TotalFill(_)
TotalFill(bins) ==
    IF bins = <<>> THEN 0 ELSE Head(bins).fillLevel + TotalFill(Tail(bins))

\* round(averageFill * 10) / 10.0, held in tenths: the average is not
\* negative, so round is the floor of the value plus one half.
AverageTenths(totalFill, totalBins) ==
    (20 * totalFill + totalBins) \div (2 * totalBins)

EmptyStats ==
    [totalBins |-> 0, binsNeedingCollection |-> 0, averageFillLevel |-> 0,
     low |-> 0, medium |-> 0, high |-> 0, critical |-> 0]

ComputeStats(bins) ==
    [totalBins |-> Len(bins),
     binsNeedingCollection |->
         Cardinality({i \in 1..Len(bins) : bins[i].needsCollection}),
     averageFillLevel |-> AverageTenths(TotalFill(bins), Len(bins)),
     low |-> CountBucket(bins, "low"),
     medium |-> CountBucket(bins, "medium"),
     high |-> CountBucket(bins, "high"),
     critical |-> CountBucket(bins, "critical")]

GetStats ==
    /\ IF g_bins = <<>>
       THEN res' = Response("GET /dashboard/stats", 200, "No bins available",
                            EmptyStats)
       ELSE res' = Response("GET /dashboard/stats", 200,
                            "Dashboard statistics retrieved successfully",
                            ComputeStats(g_bins))
    /\ UNCHANGED <<g_bins, g_next_bin_id, file, clock, disk>>

\* ------------------------------------------------------------- /admin/*
AdminLoad ==
    /\ LoadBinsFromFile
    /\ res' = Response("POST /admin/load-data", 200, "Successfully loaded", <<>>)
    /\ UNCHANGED <<file, clock, disk>>

AdminSave ==
    /\ SaveBinsToFile(g_bins)
    /\ res' = Response("POST /admin/save-data", 200, "Successfully saved", <<>>)
    /\ UNCHANGED <<g_bins, g_next_bin_id, clock, disk>>

\* ------------------------------------------------------------ next state
\* Requests handled one at a time, the backing file writable.
Next ==
    \/ Tick /\ UNCHANGED <<history, workers>>
    \/ \E body \in PostBodies : PostBins(body) /\ UNCHANGED <<history, workers>>
    \/ GetBins /\ UNCHANGED <<history, workers>>
    \/ \E binId \in ReqIds : GetBin(binId) /\ UNCHANGED <<history, workers>>
    \/ \E binId \in ReqIds : DeleteBin(binId) /\ UNCHANGED <<history, workers>>
    \/ \E binId \in ReqIds : \E body \in PutBodies :
          UpdateBin(binId, body) /\ UNCHANGED <<history, workers>>
    \/ \E draw \in [1..Len(g_bins) -> SensorSamples] :
          CollectSensorData(draw) /\ UNCHANGED <<history, workers>>
    \/ GetRoute /\ UNCHANGED <<history, workers>>
    \/ GetStats /\ UNCHANGED <<history, workers>>
    \/ AdminLoad /\ UNCHANGED <<history, workers>>
    \/ AdminSave /\ UNCHANGED <<history, workers>>

Spec == Init /\ [][Next]_vars

\* ------------------------------------------------------------- lean inputs
\* The inputs that matter to ids, lookups and timestamps: arrays of bins with
\* or without a location; update bodies that are not JSON, empty, or rename
\* the bin and leave the fill level alone.
PostBodiesH ==
    {[wellFormed |-> FALSE, items |-> <<>>]} \cup
    {[wellFormed |-> TRUE, items |-> s] : s \in SeqsUpTo({JMissing, JStr("A")}, MaxBatch)}
PutBodiesH ==
    {[EmptyBody EXCEPT !.wellFormed = FALSE], EmptyBody,
     PutBody(JStr("A"), JMissing, JMissing)}

\* The inputs that matter to the fill level: updates that set it above 100,
\* below 0, and to 64-bit values whose low 32 bits are those.
PutBodiesF ==
    {PutBody(JMissing, f, JMissing) :
        f \in {JNum(0, 150), JNum(0, -5), JNum(1, 150), JNum(-1, -5)}}

\* The handlers on the lean inputs, the clock advancing between requests.
NextT ==
    \/ Tick /\ UNCHANGED <<history, workers>>
    \/ \E body \in PostBodiesH : PostBins(body) /\ UNCHANGED <<history, workers>>
    \/ GetBins /\ UNCHANGED <<history, workers>>
    \/ \E binId \in ReqIds : GetBin(binId) /\ UNCHANGED <<history, workers>>
    \/ \E binId \in ReqIds : DeleteBin(binId) /\ UNCHANGED <<history, workers>>
    \/ \E binId \in ReqIds : \E body \in PutBodiesH :
          UpdateBin(binId, body) /\ UNCHANGED <<history, workers>>
    \/ \E draw \in [1..Len(g_bins) -> SensorSamplesH] :
          CollectSensorData(draw) /\ UNCHANGED <<history, workers>>
    \/ GetRoute /\ UNCHANGED <<history, workers>>
    \/ AdminLoad /\ UNCHANGED <<history, workers>>
    \/ AdminSave /\ UNCHANGED <<history, workers>>

SpecTimed == Init /\ [][NextT]_vars

\* The handlers on the inputs that write fill levels, the clock standing still.
NextF ==
    \/ \E body \in PostBodiesH : PostBins(body) /\ UNCHANGED <<history, workers>>
    \/ GetBins /\ UNCHANGED <<history, workers>>
    \/ \E binId \in ReqIds : GetBin(binId) /\ UNCHANGED <<history, workers>>
    \/ \E binId \in ReqIds : DeleteBin(binId) /\ UNCHANGED <<history, workers>>
    \/ \E binId \in ReqIds : \E body \in PutBodiesF :
          UpdateBin(binId, body) /\ UNCHANGED <<history, workers>>
    \/ \E draw \in [1..Len(g_bins) -> SensorSamplesH] :
          CollectSensorData(draw) /\ UNCHANGED <<history, workers>>
    \/ GetRoute /\ UNCHANGED <<history, workers>>
    \/ AdminLoad /\ UNCHANGED <<history, workers>>
    \/ AdminSave /\ UNCHANGED <<history, workers>>

SpecFill == Init /\ [][NextF]_vars

\* ------------------------------------------------------------ failing disk
\* The handlers that save or load, on the lean inputs, while the disk comes
\* and goes: the file cannot be opened for writing, or opens and cannot be
\* written.
DiskStates == {"ok", "unopenable", "full"}

SetDisk(d) ==
    /\ d # disk
    /\ disk' = d
    /\ UNCHANGED <<g_bins, g_next_bin_id, file, clock, res>>

NextD ==
    \/ \E d \in DiskStates : SetDisk(d) /\ UNCHANGED <<history, workers>>
    \/ \E body \in PostBodiesH : PostBins(body) /\ UNCHANGED <<history, workers>>
    \/ \E binId \in ReqIds : DeleteBin(binId) /\ UNCHANGED <<history, workers>>
    \/ \E binId \in ReqIds : \E body \in PutBodiesH :
          UpdateBin(binId, body) /\ UNCHANGED <<history, workers>>
    \/ \E draw \in [1..Len(g_bins) -> SensorSamplesH] :
          CollectSensorData(draw) /\ UNCHANGED <<history, workers>>
    \/ AdminLoad /\ UNCHANGED <<history, workers>>
    \/ AdminSave /\ UNCHANGED <<history, workers>>

SpecDisk == Init /\ [][NextD]_vars

\* ---------------------------------------------------------------- history
\* The same handlers, observed: which ids have been deleted, ever and since
\* the last load.  Ids do not depend on the time, and the clock stands still.
Observe ==
    LET gone == IF res'.op = "DELETE /bins/id" /\ res'.status = 200
                THEN Ids(g_bins) \ Ids(g_bins') ELSE {}
    IN /\ deletedEver' = deletedEver \cup gone
       /\ deletedSinceLoad' = IF res'.op = "POST /admin/load-data" THEN {}
                              ELSE deletedSinceLoad \cup gone

NextH ==
    \/ \E body \in PostBodiesH : PostBins(body) /\ Observe /\ UNCHANGED workers
    \/ GetBins /\ Observe /\ UNCHANGED workers
    \/ \E binId \in ReqIds : GetBin(binId) /\ Observe /\ UNCHANGED workers
    \/ \E binId \in ReqIds : DeleteBin(binId) /\ Observe /\ UNCHANGED workers
    \/ \E binId \in ReqIds : \E body \in PutBodiesH :
          UpdateBin(binId, body) /\ Observe /\ UNCHANGED workers
    \/ \E draw \in [1..Len(g_bins) -> SensorSamplesH] :
          CollectSensorData(draw) /\ Observe /\ UNCHANGED workers
    \/ GetRoute /\ Observe /\ UNCHANGED workers
    \/ AdminLoad /\ Observe /\ UNCHANGED workers
    \/ AdminSave /\ Observe /\ UNCHANGED workers

SpecHistory == Init /\ [][NextH]_vars

\* ------------------------------------------------------------ drawn stores
\* The route, the dump and the load are functions of the store alone.  Here
\* the store is drawn: records as earlier requests can have left them, ids
\* increasing in store order, the counter past the largest id, no timestamp
\* later than the clock, and nothing on disk yet.
StoreRecords ==
    [id : 1..MaxId, location : Locations, fillLevel : SensorSamples,
     needsCollection : BOOLEAN, lastUpdated : 0..MaxClock]

Stores ==
    {s \in SeqsUpTo(StoreRecords, MaxBins) :
        \A i, j \in 1..Len(s) : i < j => s[i].id < s[j].id}

InitStore ==
    /\ g_bins \in Stores
    /\ g_next_bin_id = NextIdAfterLoad(g_bins)
    /\ file = NoFile
    /\ clock = MaxClock
    /\ res = Response("start", 0, "", <<>>)
    /\ disk = "ok"
    /\ deletedEver = {}
    /\ deletedSinceLoad = {}
    /\ threads = [w \in Workers |-> IdleThread]
    /\ g_file_mutex = NoOwner

NextS ==
    \/ GetRoute /\ UNCHANGED <<history, workers>>
    \/ AdminLoad /\ UNCHANGED <<history, workers>>
    \/ AdminSave /\ UNCHANGED <<history, workers>>

SpecStore == InitStore /\ [][NextS]_vars

\* The sensor simulation on drawn stores whose flags may disagree with their
\* levels, with draws at both ends of the range and on either side of the
\* collection threshold.
SensorSamplesS == {0, 74, 75, 100}

SensorRecords ==
    [id : 1..MaxId, location : Locations, fillLevel : {0, 100},
     needsCollection : BOOLEAN, lastUpdated : {0}]

SensorStores ==
    {s \in SeqsUpTo(SensorRecords, MaxBins) :
        \A i, j \in 1..Len(s) : i < j => s[i].id < s[j].id}

InitSensor ==
    /\ g_bins \in SensorStores
    /\ g_next_bin_id = NextIdAfterLoad(g_bins)
    /\ file = NoFile
    /\ clock = MaxClock
    /\ res = Response("start", 0, "", <<>>)
    /\ disk = "ok"
    /\ deletedEver = {}
    /\ deletedSinceLoad = {}
    /\ threads = [w \in Workers |-> IdleThread]
    /\ g_file_mutex = NoOwner

NextSensor ==
    \E draw \in [1..Len(g_bins) -> SensorSamplesS] :
        CollectSensorData(draw) /\ UNCHANGED <<history, workers>>

SpecSensor == InitSensor /\ [][NextSensor]_vars

\* ------------------------------------------------------- drawn fill levels
\* The statistics are a function of the store alone.  Here the store is
\* drawn with fill levels at both ends of every bucket.
StatFills == {0, 24, 25, 49, 50, 74, 75, 100}

StatRecords ==
    [id : 1..MaxId, location : {"A"}, fillLevel : StatFills,
     needsCollection : BOOLEAN, lastUpdated : {0}]

StatStores ==
    {s \in SeqsUpTo(StatRecords, MaxBins) :
        \A i, j \in 1..Len(s) : i < j => s[i].id < s[j].id}

InitStats ==
    /\ g_bins \in StatStores
    /\ g_next_bin_id = NextIdAfterLoad(g_bins)
    /\ file = NoFile
    /\ clock = 0
    /\ res = Response("start", 0, "", <<>>)
    /\ disk = "ok"
    /\ deletedEver = {}
    /\ deletedSinceLoad = {}
    /\ threads = [w \in Workers |-> IdleThread]
    /\ g_file_mutex = NoOwner

NextStats == GetStats /\ UNCHANGED <<history, workers>>

SpecStats == InitStats /\ [][NextStats]_vars

\* ------------------------------------------------------------ drawn files
\* What a load makes of the backing file is a function of the file.  Here the
\* file is drawn: absent, or an array whose elements are well formed, lack a
\* field, or hold a value of another type in one; the store is empty or
\* holds one record.
GoodItem(id) == ToJson([WasteBin(id, "A", 0) EXCEPT !.fillLevel = 75])

FileItems ==
    {GoodItem(id) : id \in 1..MaxId}
    \cup {[GoodItem(1) EXCEPT ![k] = JMissing] :
             k \in {"id", "location", "fillLevel", "needsCollection", "lastUpdated"}}
    \cup {[GoodItem(1) EXCEPT !.id = JStr("1")],
          [GoodItem(1) EXCEPT !.location = JNum(0, 7)],
          [GoodItem(1) EXCEPT !.fillLevel = JStr("x")],
          [GoodItem(1) EXCEPT !.needsCollection = JNum(0, 1)],
          [GoodItem(1) EXCEPT !.lastUpdated = JBool(TRUE)]}
    \cup {[GoodItem(1) EXCEPT !.id = JBool(TRUE)],
          [GoodItem(1) EXCEPT !.fillLevel = JBool(TRUE)]}

Files ==
    {NoFile} \cup {[exists |-> TRUE, data |-> s] : s \in SeqsUpTo(FileItems, MaxBins)}

InitLoad ==
    /\ file \in Files
    /\ g_bins \in {<<>>, <<WasteBin(MaxId, "A", 0)>>}
    /\ g_next_bin_id = MaxId + 1
    /\ clock = 0
    /\ res = Response("start", 0, "", <<>>)
    /\ disk = "ok"
    /\ deletedEver = {}
    /\ deletedSinceLoad = {}
    /\ threads = [w \in Workers |-> IdleThread]
    /\ g_file_mutex = NoOwner

NextLoad == AdminLoad /\ UNCHANGED <<history, workers>>

SpecLoad == InitLoad /\ [][NextLoad]_vars

\* ---------------------------------------------------------- worker threads
\* The server runs every handler on a thread of its pool, and the handlers
\* take no lock of their own: only the bodies of saveBinsToFile and
\* loadBinsFromFile run under g_file_mutex.  Here two threads handle creates
\* of one bin, sensor simulations, listings, saves and loads, one access to
\* the shared store or counter per step; what a thread does to the store
\* and the file while it owns the mutex is one step.  pc is the thread's
\* place in its handler, op the handler, id and n its locals.
UnderLock == {"save_write", "save_unlock", "load_store", "load_unlock"}

Creating == {"create_read", "create_incr", "push_read", "push_write"}

CanLock_always(owner) == TRUE

\* std::lock_guard's constructor returns once no other thread owns the mutex.
CanLock(owner) == owner = NoOwner

At(w, pc) == threads[w].pc = pc

Goto(w, pc) == threads' = [threads EXCEPT ![w].pc = pc]

BeginCreate(w) ==
    /\ At(w, "idle")
    /\ g_next_bin_id <= MaxId
    /\ Len(g_bins) + Cardinality({v \in Workers : threads[v].pc \in Creating}) < MaxBins
    /\ threads' = [threads EXCEPT ![w].pc = "create_read", ![w].op = "POST /bins"]
    /\ UNCHANGED <<g_bins, g_next_bin_id, file, res, g_file_mutex>>

\* Line 213, g_next_bin_id++: the read.
CreateRead(w) ==
    /\ At(w, "create_read")
    /\ threads' = [threads EXCEPT ![w].pc = "create_incr", ![w].id = g_next_bin_id]
    /\ UNCHANGED <<g_bins, g_next_bin_id, file, res, g_file_mutex>>

\* Line 213, g_next_bin_id++: the write.
CreateIncr(w) ==
    /\ At(w, "create_incr")
    /\ g_next_bin_id' = NextBinId(threads[w].id)
    /\ Goto(w, "push_read")
    /\ UNCHANGED <<g_bins, file, res, g_file_mutex>>

\* Line 214, push_back: the read of the vector's end.
PushRead(w) ==
    /\ At(w, "push_read")
    /\ threads' = [threads EXCEPT ![w].pc = "push_write", ![w].n = Len(g_bins)]
    /\ UNCHANGED <<g_bins, g_next_bin_id, file, res, g_file_mutex>>

\* Line 214, push_back: the write of the element and of the new end.  When
\* the vector has changed since the end was read the outcome is undefined:
\* the record lands after the others, or on top of what was put past the
\* end this thread read.
PushWrite(w) ==
    LET newBin == WasteBin(threads[w].id, "A", clock)
        n == threads[w].n
    IN /\ At(w, "push_write")
       /\ \/ g_bins' = Append(g_bins, newBin)
          \/ /\ Len(g_bins) # n
             /\ g_bins' = Append(SubSeq(g_bins, 1, Min(n, Len(g_bins))), newBin)
       /\ Goto(w, "save_lock")
       /\ UNCHANGED <<g_next_bin_id, file, res, g_file_mutex>>

BeginSensor(w) ==
    /\ At(w, "idle")
    /\ IF g_bins = <<>>
       THEN /\ res' = Response("POST /bins/collect-sensor-data", 404,
                               "No bins available", <<>>)
            /\ UNCHANGED threads
       ELSE /\ threads' = [threads EXCEPT ![w].pc = "sensor_loop", ![w].n = 1,
                                          ![w].op = "POST /bins/collect-sensor-data"]
            /\ UNCHANGED res
    /\ UNCHANGED <<g_bins, g_next_bin_id, file, g_file_mutex>>

\* Lines 383-388: one turn of the loop, or its end.
SensorStep(w, level) ==
    LET n == threads[w].n
    IN /\ At(w, "sensor_loop")
       /\ IF n <= Len(g_bins)
          THEN /\ g_bins' = [g_bins EXCEPT ![n] = SensorReading(g_bins[n], level, clock)]
               /\ threads' = [threads EXCEPT ![w].n = n + 1]
          ELSE /\ Goto(w, "save_lock")
               /\ UNCHANGED g_bins
       /\ UNCHANGED <<g_next_bin_id, file, res, g_file_mutex>>

BeginList(w) ==
    /\ At(w, "idle")
    /\ threads' = [threads EXCEPT ![w].pc = "list", ![w].op = "GET /bins"]
    /\ UNCHANGED <<g_bins, g_next_bin_id, file, res, g_file_mutex>>

\* Lines 257-259: the loop over the store, not interrupted.
ListStep(w) ==
    /\ At(w, "list")
    /\ res' = Response("GET /bins", 200, "Retrieved bins", g_bins)
    /\ threads' = [threads EXCEPT ![w] = IdleThread]
    /\ UNCHANGED <<g_bins, g_next_bin_id, file, g_file_mutex>>

BeginSave(w) ==
    /\ At(w, "idle")
    /\ threads' = [threads EXCEPT ![w].pc = "save_lock", ![w].op = "POST /admin/save-data"]
    /\ UNCHANGED <<g_bins, g_next_bin_id, file, res, g_file_mutex>>

\* Line 135.
SaveLock(w) ==
    /\ At(w, "save_lock")
    /\ CanLock(g_file_mutex)
    /\ g_file_mutex' = w
    /\ Goto(w, "save_write")
    /\ UNCHANGED <<g_bins, g_next_bin_id, file, res>>

\* Lines 138-144.
SaveWrite(w) ==
    /\ At(w, "save_write")
    /\ SaveBinsToFile(g_bins)
    /\ Goto(w, "save_unlock")
    /\ UNCHANGED <<g_bins, g_next_bin_id, res, g_file_mutex>>

\* Line 149: the lock_guard goes out of scope.
SaveUnlock(w) ==
    /\ At(w, "save_unlock")
    /\ g_file_mutex' = NoOwner
    /\ Goto(w, "respond")
    /\ UNCHANGED <<g_bins, g_next_bin_id, file, res>>

BeginLoad(w) ==
    /\ At(w, "idle")
    /\ threads' = [threads EXCEPT ![w].pc = "load_lock", ![w].op = "POST /admin/load-data"]
    /\ UNCHANGED <<g_bins, g_next_bin_id, file, res, g_file_mutex>>

\* Line 101.
LoadLock(w) ==
    /\ At(w, "load_lock")
    /\ CanLock(g_file_mutex)
    /\ g_file_mutex' = w
    /\ Goto(w, "load_store")
    /\ UNCHANGED <<g_bins, g_next_bin_id, file, res>>

\* Lines 104-124.
LoadStore(w) ==
    /\ At(w, "load_store")
    /\ LoadBinsFromFile
    /\ Goto(w, "load_unlock")
    /\ UNCHANGED <<file, res, g_file_mutex>>

\* Line 131.
LoadUnlock(w) ==
    /\ At(w, "load_unlock")
    /\ g_file_mutex' = NoOwner
    /\ Goto(w, "respond")
    /\ UNCHANGED <<g_bins, g_next_bin_id, file, res>>

\* The response of a handler that has saved or loaded.  Of the envelope's
\* data only the created record is kept.
Respond(w) ==
    LET op == threads[w].op
    IN /\ At(w, "respond")
       /\ res' = IF op = "POST /bins"
                 THEN Response(op, 201, "bins added successfully",
                               <<WasteBin(threads[w].id, "A", clock)>>)
                 ELSE Response(op, 200, "", <<>>)
       /\ threads' = [threads EXCEPT ![w] = IdleThread]
       /\ UNCHANGED <<g_bins, g_next_bin_id, file, g_file_mutex>>

\* A step of one of the threads; the clock and the disk stand still.
Quietly == UNCHANGED <<clock, disk, history>>

NextC ==
    \/ \E w \in Workers : BeginCreate(w) /\ Quietly
    \/ \E w \in Workers : CreateRead(w) /\ Quietly
    \/ \E w \in Workers : CreateIncr(w) /\ Quietly
    \/ \E w \in Workers : PushRead(w) /\ Quietly
    \/ \E w \in Workers : PushWrite(w) /\ Quietly
    \/ \E w \in Workers : BeginSensor(w) /\ Quietly
    \/ \E w \in Workers : \E level \in SensorSamplesH : SensorStep(w, level) /\ Quietly
    \/ \E w \in Workers : BeginList(w) /\ Quietly
    \/ \E w \in Workers : ListStep(w) /\ Quietly
    \/ \E w \in Workers : BeginSave(w) /\ Quietly
    \/ \E w \in Workers : SaveLock(w) /\ Quietly
    \/ \E w \in Workers : SaveWrite(w) /\ Quietly
    \/ \E w \in Workers : SaveUnlock(w) /\ Quietly
    \/ \E w \in Workers : BeginLoad(w) /\ Quietly
    \/ \E w \in Workers : LoadLock(w) /\ Quietly
    \/ \E w \in Workers : LoadStore(w) /\ Quietly
    \/ \E w \in Workers : LoadUnlock(w) /\ Quietly
    \/ \E w \in Workers : Respond(w) /\ Quietly

SpecConc == Init /\ [][NextC]_vars

\* ------------------------------------------------------------------ claims
\* The records a step appended to the store.
Appended == SubSeq(g_bins', Len(g_bins) + 1, Len(g_bins'))

\* A step that handles a request: the environment (clock, disk) does not
\* move, and the response is the one to that request.
Handled(op) == res'.op = op /\ UNCHANGED <<clock, disk>>

CreateStep == Handled("POST /bins") /\ res'.status # 400

StoreUntouched ==
    /\ g_bins' = g_bins
    /\ g_next_bin_id' = g_next_bin_id
    /\ file' = file

\* C1: every create appends to the store records whose ids are strictly
\* increasing in creation order and strictly greater than the id of every
\* record already there, so the ids of any run of creates are pairwise
\* distinct and increasing.
C1_CreatedIdsIncrease ==
    [][CreateStep =>
        /\ SubSeq(g_bins', 1, Len(g_bins)) = g_bins
        /\ Appended = res'.data
        /\ \A i, j \in 1..Len(Appended) : i < j => Appended[i].id < Appended[j].id
        /\ \A i \in 1..Len(g_bins) : \A j \in 1..Len(Appended) :
              g_bins[i].id < Appended[j].id]_vars

\* Two creates, one request after the other or both in one array, are in the
\* store.
C1_Witness ==
    /\ res.op = "POST /bins"
    /\ res.status = 201
    /\ res.data # <<>>
    /\ Len(g_bins) >= 2

\* C2 as stated: no create, after any sequence of operations, assigns an id
\* that a deleted record once had.
C2_DeletedIdNeverReused ==
    [][Handled("POST /bins") =>
        \A j \in 1..Len(Appended) : Appended[j].id \notin deletedEver]_vars

\* C2 amended: no create assigns an id that a record deleted since the last
\* load had.
C2_DeletedIdNotReusedWithoutLoad ==
    [][Handled("POST /bins") =>
        \A j \in 1..Len(Appended) : Appended[j].id \notin deletedSinceLoad]_vars

\* A create that follows a deletion with no load in between.
C2_Witness ==
    /\ res.op = "POST /bins"
    /\ res.status = 201
    /\ res.data # <<>>
    /\ deletedSinceLoad # {}

\* C3: a create answered with 400 for an element without a string location
\* leaves the store, the id counter and the backing file as they were.
C3_RejectedCreateChangesNothing ==
    [][(Handled("POST /bins") /\ res'.status = 400
        /\ res'.message = "Each bin must have a location string")
       => StoreUntouched]_vars

Absent(binId) == \A i \in 1..Len(g_bins) : g_bins[i].id # binId
IndexOf(binId) == CHOOSE i \in 1..Len(g_bins) : g_bins[i].id = binId

C5_FillLevelInRange ==
    \A i \in 1..Len(g_bins) :
        g_bins[i].fillLevel >= 0 /\ g_bins[i].fillLevel <= 100

\* An update with a fillLevel above 100 has been clamped, next to a record
\* at the collection threshold.
C5_Witness ==
    /\ res.op = "PUT /bins/id"
    /\ res.status = 200
    /\ res.data[1].fillLevel = 100
    /\ \E i \in 1..Len(g_bins) : g_bins[i].fillLevel = 75

\* The integer a JSON number denotes, clamped to [0, 100].
ClampedValue(j) ==
    IF j.hi > 0 THEN 100
    ELSE IF j.hi < 0 THEN 0
    ELSE IF j.lo > 100 THEN 100
    ELSE IF j.lo < 0 THEN 0 ELSE j.lo

\* C6: an update of an existing record with integer fillLevel v and nothing
\* else stores min(100, max(0, v)) and keeps needsCollection.
C6_UpdateStoresClampedValue ==
    [][\A binId \in 1..MaxId : \A f \in {j \in PutFill : is_number(j)} :
        (~Absent(binId) /\ UpdateBin(binId, PutBody(JMissing, f, JMissing)))
        => /\ Len(g_bins') = Len(g_bins)
           /\ g_bins'[IndexOf(binId)].fillLevel = ClampedValue(f)
           /\ g_bins'[IndexOf(binId)].needsCollection
                 = g_bins[IndexOf(binId)].needsCollection]_vars

\* C7: an update of an existing record with an empty body moves that
\* record's lastUpdated forward or leaves it, and changes nothing else in
\* the store nor the id counter.
C7_EmptyUpdateTouchesOnlyTimestamp ==
    [][Handled("PUT /bins/id") =>
        \A binId \in 1..MaxId :
            (~Absent(binId) /\ UpdateBin(binId, EmptyBody))
            => /\ res'.status = 200
               /\ Len(g_bins') = Len(g_bins)
               /\ g_bins'[IndexOf(binId)].lastUpdated
                     >= g_bins[IndexOf(binId)].lastUpdated
               /\ g_bins' = [g_bins EXCEPT ![IndexOf(binId)].lastUpdated =
                                               g_bins'[IndexOf(binId)].lastUpdated]
               /\ g_next_bin_id' = g_next_bin_id]_vars

\* An update that left fillLevel 75 and needsCollection in place and moved
\* lastUpdated, next to a record it did not touch.
C7_Witness ==
    /\ res.op = "PUT /bins/id"
    /\ res.status = 200
    /\ res.data[1].fillLevel = 75
    /\ res.data[1].needsCollection
    /\ res.data[1].lastUpdated = clock
    /\ clock > 0
    /\ \E i \in 1..Len(g_bins) : g_bins[i].lastUpdated < clock

\* C8: a load that follows a successful save gives back the store that was
\* saved: the same records in the same order with the same five fields.
C8_SaveLoadRoundTrip ==
    [][(/\ res.op = "POST /admin/save-data"
        /\ file = Dump(g_bins)
        /\ Handled("POST /admin/load-data"))
       => g_bins' = g_bins]_vars

\* A load has given back two records, one of them with the empty location
\* and one with a timestamp older than the clock.
C8_Witness ==
    /\ res.op = "POST /admin/load-data"
    /\ file = Dump(g_bins)
    /\ Len(g_bins) = 2
    /\ \E i \in 1..Len(g_bins) : g_bins[i].lastUpdated < clock
    /\ \E i \in 1..Len(g_bins) : g_bins[i].location = ""
    /\ \E i \in 1..Len(g_bins) : g_bins[i].needsCollection /\ g_bins[i].fillLevel = 74

\* C9: the route holds exactly the records that need collection, each once,
\* with fillLevel non-increasing; it is empty, with status 200, when none does.
C9_RouteIsFilteredAndSorted ==
    res.op = "GET /optimize-route" =>
        LET route == res.data
            wanted == {i \in 1..Len(g_bins) : g_bins[i].needsCollection}
        IN /\ res.status = 200
           /\ Len(route) = Cardinality(wanted)
           /\ \A i \in wanted :
                 Cardinality({k \in 1..Len(route) : route[k] = RouteItem(g_bins[i])}) = 1
           /\ \A k, l \in 1..Len(route) :
                 k < l => route[k].fillLevel >= route[l].fillLevel

\* A route of one record, the second of the store, the first being left out.
C9_Witness ==
    /\ res.op = "GET /optimize-route"
    /\ Len(g_bins) = 2
    /\ Len(res.data) = 1
    /\ res.data[1].id = g_bins[2].id
    /\ g_bins[1].fillLevel > g_bins[2].fillLevel

\* C10: two records of the route with equal fillLevel are in the order they
\* have in the store.
C10_TiesKeepStoreOrder ==
    res.op = "GET /optimize-route" =>
        \A k, l \in 1..Len(res.data) :
            (k < l /\ res.data[k].fillLevel = res.data[l].fillLevel)
            => \E i, j \in 1..Len(g_bins) :
                  /\ i < j
                  /\ g_bins[i].id = res.data[k].id
                  /\ g_bins[j].id = res.data[l].id

\* C11: the statistics count every record in exactly one of the buckets low
\* [0,25), medium [25,50), high [50,75) and critical [75,100], so the four
\* counts add up to totalBins; for the empty store they are all 0.
C11_BucketsPartitionStore ==
    res.op = "GET /dashboard/stats" =>
        LET d == res.data
            In(lo, hi) == Cardinality({i \in 1..Len(g_bins) :
                              g_bins[i].fillLevel >= lo /\ g_bins[i].fillLevel <= hi})
        IN /\ d.low = In(0, 24)
           /\ d.medium = In(25, 49)
           /\ d.high = In(50, 74)
           /\ d.critical = In(75, 100)
           /\ d.totalBins = Len(g_bins)
           /\ d.low + d.medium + d.high + d.critical = d.totalBins
           /\ g_bins = <<>> => d = EmptyStats

\* Statistics of two records on either side of the critical threshold.
C11_Witness ==
    /\ res.op = "GET /dashboard/stats"
    /\ res.data.totalBins = 2
    /\ res.data.high = 1
    /\ res.data.critical = 1
    /\ \E i \in 1..Len(g_bins) : g_bins[i].fillLevel = 75
    /\ \E i \in 1..Len(g_bins) : g_bins[i].fillLevel = 74

\* C14: every record in the store has a non-empty location.
C14_LocationNonEmpty ==
    \A i \in 1..Len(g_bins) : g_bins[i].location # ""

\* C15 as stated: the first id a create assigns is the largest id in the
\* store plus one, or 1 when the store is empty.
C15_CreateUsesMaxPlusOne ==
    [][(CreateStep /\ Appended # <<>>)
       => Appended[1].id = NextIdAfterLoad(g_bins)]_vars

\* C15 amended: a create assigns the value of the id counter, and the values
\* that follow it to the further elements of its array; the counter is
\* greater than every id in the store, and it is the largest id plus one (1
\* for the empty store) while no record has been deleted since the last load.
C15_CreateUsesCounter ==
    [][Handled("POST /bins") =>
        /\ \A j \in 1..Len(Appended) : Appended[j].id = g_next_bin_id + j - 1
        /\ \A i \in 1..Len(g_bins) : g_bins[i].id < g_next_bin_id
        /\ deletedSinceLoad = {} => g_next_bin_id = NextIdAfterLoad(g_bins)]_vars

\* A create that followed the deletion of the record with the largest id:
\* the new record is alone in the store and its id is not 1.
C15_Witness ==
    /\ res.op = "POST /bins"
    /\ res.status = 201
    /\ Len(res.data) = 1
    /\ Len(g_bins) = 1
    /\ g_bins[1].id > 1
    /\ g_bins[1].id - 1 \in deletedSinceLoad

\* The fields of a persisted element, and the JSON type each must have.
FieldType ==
    [id |-> "number", location |-> "string", fillLevel |-> "number",
     needsCollection |-> "boolean", lastUpdated |-> "string"]

\* An element that lacks a field or has one of the wrong type.
Malformed(j) == \E k \in DOMAIN FieldType : j[k].t # FieldType[k]

\* An element that lacks a field or has one that its conversion refuses: id
\* and fillLevel take numbers and booleans, the other fields their type only.
Refused(j) ==
    \E k \in DOMAIN FieldType :
        /\ j[k].t # FieldType[k]
        /\ ~(k \in {"id", "fillLevel"} /\ j[k].t = "boolean")

\* C17 as stated: a load of an absent file, or of a file with an element
\* that lacks a field or has one of the wrong type, leaves the store empty
\* and the counter at 1.
C17_LoadAllOrNothing ==
    [][(/\ Handled("POST /admin/load-data")
        /\ \/ ~file.exists
           \/ \E i \in 1..Len(file.data) : Malformed(file.data[i]))
       => (g_bins' = <<>> /\ g_next_bin_id' = 1)]_vars

\* C17 amended: a load of an absent file, or of a file with an element that
\* lacks a field or has one its conversion refuses, leaves the store empty
\* and the counter at 1, whatever precedes that element and whatever the
\* store held; any other file is loaded whole, one record per element.
C17_LoadAllOrNothingOnRefusal ==
    [][Handled("POST /admin/load-data") =>
        IF ~file.exists \/ \E i \in 1..Len(file.data) : Refused(file.data[i])
        THEN g_bins' = <<>> /\ g_next_bin_id' = 1
        ELSE /\ Len(g_bins') = Len(file.data)
             /\ \A i \in 1..Len(file.data) :
                   /\ g_bins'[i].location = file.data[i].location.s
                   /\ g_bins'[i].needsCollection = file.data[i].needsCollection.b
             /\ g_next_bin_id' = NextIdAfterLoad(g_bins')]_vars

\* A load has emptied the store on a file whose first element is well formed
\* and whose second is not.
C17_Witness ==
    /\ res.op = "POST /admin/load-data"
    /\ g_bins = <<>>
    /\ g_next_bin_id = 1
    /\ file.exists
    /\ Len(file.data) = 2
    /\ ~Malformed(file.data[1])
    /\ Refused(file.data[2])

\* C18: a sensor simulation on a non-empty store leaves every record with
\* fillLevel in [0,100] and needsCollection = (fillLevel >= 75), and keeps
\* the records' number, order, ids and locations; on the empty store it is
\* answered with 404 and changes neither the store nor the file.
C18_SensorSetsFlagFromLevel ==
    [][Handled("POST /bins/collect-sensor-data") =>
        IF g_bins = <<>>
        THEN res'.status = 404 /\ StoreUntouched
        ELSE /\ res'.status = 200
             /\ Len(g_bins') = Len(g_bins)
             /\ g_next_bin_id' = g_next_bin_id
             /\ \A i \in 1..Len(g_bins) :
                   /\ g_bins'[i].id = g_bins[i].id
                   /\ g_bins'[i].location = g_bins[i].location
                   /\ g_bins'[i].fillLevel >= 0
                   /\ g_bins'[i].fillLevel <= 100
                   /\ g_bins'[i].needsCollection = (g_bins'[i].fillLevel >= 75)]_vars

\* A simulation has left one record just below the threshold and one on it.
C18_Witness ==
    /\ res.op = "POST /bins/collect-sensor-data"
    /\ res.status = 200
    /\ Len(g_bins) = 2
    /\ g_bins[1].fillLevel = 74 /\ ~g_bins[1].needsCollection
    /\ g_bins[2].fillLevel = 75 /\ g_bins[2].needsCollection
    /\ file = Dump(g_bins)

\* C19: between requests the file holds the records of the store, in store
\* order; an absent file stands for no records.  The store is loaded when
\* the program starts, so every request follows a load.
C19_FileMirrorsStore ==
    IF file.exists THEN file = Dump(g_bins) ELSE g_bins = <<>>

\* What a request whose save fails does, fileKept saying what becomes of the
\* file: it is answered as if the save had worked, and the store and the
\* counter are those the request leaves when the save works.
SilentSave(fileKept) ==
    disk # "ok" =>
      /\ Handled("POST /admin/save-data") =>
            /\ res'.status = 200
            /\ g_bins' = g_bins
            /\ g_next_bin_id' = g_next_bin_id
            /\ fileKept
      /\ Handled("POST /bins") =>
            \A body \in PostBodiesH :
                (/\ body.wellFormed
                 /\ \A k \in 1..Len(body.items) : is_string(body.items[k])
                 /\ PostBins(body))
                => /\ res'.status = 201
                   /\ Len(g_bins') = Len(g_bins) + Len(body.items)
                   /\ SubSeq(g_bins', 1, Len(g_bins)) = g_bins
                   /\ g_next_bin_id' = g_next_bin_id + Len(body.items)
                   /\ fileKept
      /\ Handled("DELETE /bins/id") =>
            \A binId \in 1..MaxId :
                (~Absent(binId) /\ DeleteBin(binId))
                => /\ res'.status = 200
                   /\ Ids(g_bins') = Ids(g_bins) \ {binId}
                   /\ g_next_bin_id' = g_next_bin_id
                   /\ fileKept
      /\ Handled("PUT /bins/id") =>
            \A binId \in 1..MaxId :
                (~Absent(binId) /\ UpdateBin(binId, PutBody(JStr("A"), JMissing, JMissing)))
                => /\ res'.status = 200
                   /\ g_bins'[IndexOf(binId)].location = "A"
                   /\ g_next_bin_id' = g_next_bin_id
                   /\ fileKept
      /\ (Handled("POST /bins/collect-sensor-data") /\ g_bins # <<>>)
            => /\ res'.status = 200
               /\ \A i \in 1..Len(g_bins') : g_bins'[i].fillLevel \in SensorSamplesH
               /\ g_next_bin_id' = g_next_bin_id
               /\ fileKept

\* C20 as stated: a request whose save fails is answered with its success
\* status, keeps its change of the store, leaves the counter as the request
\* set it, and leaves the file with its previous content.
C20_FailedSaveKeepsFile ==
    [][SilentSave(file' = file)]_vars

\* C20 amended: the same, the file keeping its previous content when it
\* cannot be opened for writing, and being left cut short when it opens and
\* the write fails.
C20_FailedSaveKeepsOrCutsFile ==
    [][SilentSave(file' = IF disk = "unopenable" THEN file ELSE Truncated)]_vars

\* A deletion was answered 200 while the file could not be opened: the file
\* still holds the record the store has lost.
C20_Witness ==
    /\ res.op = "DELETE /bins/id"
    /\ res.status = 200
    /\ disk = "unopenable"
    /\ file.exists
    /\ file # Truncated
    /\ Len(file.data) = Len(g_bins) + 1

\* C12: no update of concurrently handled mutating requests is lost: the
\* ids in the store are pairwise distinct, and when a create responds the
\* record it made is in the store and in the file.
C12_NoLostUpdate ==
    [][/\ \A i, j \in 1..Len(g_bins') : i < j => g_bins'[i].id # g_bins'[j].id
       /\ \A w \in Workers :
             (At(w, "respond") /\ threads[w].op = "POST /bins" /\ Respond(w))
             => /\ \E i \in 1..Len(g_bins') : g_bins'[i].id = threads[w].id
                /\ \E k \in 1..Len(file'.data) :
                      GetInt(file'.data[k].id) = threads[w].id]_vars

\* A thread is part of the way through the loop of the sensor simulation:
\* some records carry the new reading and some do not yet.
MidSimulation(v) ==
    /\ At(v, "sensor_loop")
    /\ threads[v].n > 1
    /\ threads[v].n <= Len(g_bins)

\* C13: no listing and no save reads the store while another thread is part
\* of the way through the loop of the sensor simulation.
C13_SimulationIsAtomic ==
    [][\A w \in Workers :
          (ListStep(w) \/ SaveWrite(w))
          => \A v \in Workers \ {w} : ~MidSimulation(v)]_vars

\* C16: at most one thread at a time is inside the body of saveBinsToFile
\* or loadBinsFromFile, and it is the owner of the mutex.
C16_SaveLoadExclusive ==
    /\ Cardinality({w \in Workers : threads[w].pc \in UnderLock}) <= 1
    /\ \A w \in Workers : threads[w].pc \in UnderLock => g_file_mutex = w

\* One thread is writing the file while another waits at the lock of a load.
C16_Witness ==
    \E w, v \in Workers :
        /\ At(w, "save_write")
        /\ At(v, "load_lock")
        /\ g_file_mutex = w
====
